---- MODULE Spec2Model ----
(***************************************************************************)
(* betterpem: ParsePEMs and the ParsedPEMs consumption methods             *)
(* (src/main.go).                                                          *)
(*                                                                         *)
(* A byte buffer is modelled as a sequence of tokens.  A token is either   *)
(* a run of non-PEM text or one PEM block (its type line and its DER       *)
(* body).  The DER body is named by what it really encodes, so that a      *)
(* parser of encoding/x509 succeeds exactly on the bodies of its format.   *)
(***************************************************************************)
EXTENDS Integers, Sequences, FiniteSets, TLC

\* Largest number of tokens (PEM blocks and runs of text) in an input.
MaxBlocks == 3

(***************************************************************************)
(* Errors                                                                  *)
(***************************************************************************)
NoErr == "nil"

ErrPemUnderlyingFormatError == "pem passed was not a string, []byte, or io.Reader"

ErrPemIsUnsupportedType == "pem is an unsupported type"

\* The non-EOF error a failing io.Reader returns from Read.
ErrRead == "read failed"

(***************************************************************************)
(* Inputs                                                                  *)
(***************************************************************************)
Text == [kind |-> "text"]

Block(t, d) == [kind |-> "block", type |-> t, der |-> d]

RecognizedTypes == {"CERTIFICATE", "RSA PRIVATE KEY", "EC PRIVATE KEY", "PRIVATE KEY"}

\* The DER bodies each block type is tried with: the well-formed ones of its
\* format, and a malformed one.
BodiesOf(t) ==
    CASE t = "CERTIFICATE"         -> {"x509", "malformed"}
      [] t = "RSA PRIVATE KEY"     -> {"pkcs1", "malformed"}
      [] t = "EC PRIVATE KEY"      -> {"sec1", "malformed"}
      [] t = "PRIVATE KEY"         -> {"pkcs8-rsa", "pkcs8-ec", "pkcs8-ed25519", "malformed"}
      [] t = "CERTIFICATE REQUEST" -> {"pkcs10"}

BlockTypes == RecognizedTypes \cup {"CERTIFICATE REQUEST"}

Tokens == {Text} \cup UNION {{Block(t, d) : d \in BodiesOf(t)} : t \in BlockTypes}

Contents == UNION {[1..k -> Tokens] : k \in 0..MaxBlocks}

\* An io.Reader over content T: each Read yields one token, and the last
\* Read returns e (io.EOF, or a failure).
ReaderOf(T, e) ==
    [kind |-> "reader", chunks |-> [i \in 1..Len(T) |-> <<T[i]>>], readErr |-> e]

BytesOf(T) == [kind |-> "[]byte", b |-> T]

StringOf(T) == [kind |-> "string", s |-> T]

\* A value that is none of []byte, string, io.Reader.
OtherInput == [kind |-> "int"]

Inputs ==
    {OtherInput}
    \cup {BytesOf(T) : T \in Contents}
    \cup {StringOf(T) : T \in Contents}
    \cup {ReaderOf(T, e) : T \in Contents, e \in {"EOF", ErrRead}}

(***************************************************************************)
(* io.ReadAll and intoBytes                                                *)
(***************************************************************************)
RECURSIVE ReadAll(_, _)
\* Read chunk after chunk into the buffer until Read returns an error;
\* io.EOF is reported as no error.
ReadAll(r, buf) ==
    IF r.chunks = <<>>
    THEN [b |-> buf, err |-> IF r.readErr = "EOF" THEN NoErr ELSE r.readErr]
    ELSE ReadAll([r EXCEPT !.chunks = Tail(r.chunks)], buf \o Head(r.chunks))

\* Mutant: one Read of the stream instead of io.ReadAll.
intoBytes_SingleRead(pemInt) ==
    CASE pemInt.kind = "[]byte" -> [b |-> pemInt.b, err |-> NoErr]
      [] pemInt.kind = "string" -> [b |-> pemInt.s, err |-> NoErr]
      [] pemInt.kind = "reader" ->
            IF pemInt.chunks = <<>>
            THEN [b |-> <<>>, err |-> IF pemInt.readErr = "EOF" THEN NoErr ELSE pemInt.readErr]
            ELSE [b |-> Head(pemInt.chunks), err |-> NoErr]
      [] OTHER -> [b |-> <<>>, err |-> ErrPemUnderlyingFormatError]

\* Mutant: the errors of normalisation are dropped.
intoBytes_IgnoresFailure(pemInt) ==
    CASE pemInt.kind = "[]byte" -> [b |-> pemInt.b, err |-> NoErr]
      [] pemInt.kind = "string" -> [b |-> pemInt.s, err |-> NoErr]
      [] pemInt.kind = "reader" -> [b |-> ReadAll(pemInt, <<>>).b, err |-> NoErr]
      [] OTHER -> [b |-> <<>>, err |-> NoErr]

intoBytes(pemInt) ==
    CASE pemInt.kind = "[]byte" -> [b |-> pemInt.b, err |-> NoErr]
      [] pemInt.kind = "string" -> [b |-> pemInt.s, err |-> NoErr]
      [] pemInt.kind = "reader" ->
            LET ra == ReadAll(pemInt, <<>>)
            IN  IF ra.err # NoErr
                THEN [b |-> <<>>, err |-> ra.err]
                ELSE [b |-> ra.b, err |-> NoErr]
      [] OTHER -> [b |-> <<>>, err |-> ErrPemUnderlyingFormatError]

(***************************************************************************)
(* encoding/pem and encoding/x509, as ParsePEMs uses them                  *)
(***************************************************************************)
NoBlock == [kind |-> "nil"]

RECURSIVE Decode(_)
\* pem.Decode: the first PEM block of the buffer and what follows it, or no
\* block and the buffer when the buffer holds none.
Decode(rest) ==
    IF rest = <<>> THEN [der |-> NoBlock, rest |-> rest]
    ELSE IF Head(rest).kind = "block" THEN [der |-> Head(rest), rest |-> Tail(rest)]
    ELSE LET d == Decode(Tail(rest))
         IN  IF d.der = NoBlock THEN [der |-> NoBlock, rest |-> rest] ELSE d

Obj(gotype, der) == [gotype |-> gotype, der |-> der]

NoObj == Obj("nil", "nil")

ParseCertificate(der) ==
    IF der = "x509"
    THEN [r |-> Obj("*x509.Certificate", der), err |-> NoErr]
    ELSE [r |-> NoObj, err |-> "x509: malformed certificate"]

ParsePKCS1PrivateKey(der) ==
    IF der = "pkcs1"
    THEN [r |-> Obj("*rsa.PrivateKey", der), err |-> NoErr]
    ELSE [r |-> NoObj, err |-> "x509: failed to parse PKCS1 private key"]

ParseECPrivateKey(der) ==
    IF der = "sec1"
    THEN [r |-> Obj("*ecdsa.PrivateKey", der), err |-> NoErr]
    ELSE [r |-> NoObj, err |-> "x509: failed to parse EC private key"]

\* The PKCS#8 parser returns the key in the Go type of its algorithm.
ParsePKCS8PrivateKey(der) ==
    CASE der = "pkcs8-rsa"     -> [r |-> Obj("*rsa.PrivateKey", der), err |-> NoErr]
      [] der = "pkcs8-ec"      -> [r |-> Obj("*ecdsa.PrivateKey", der), err |-> NoErr]
      [] der = "pkcs8-ed25519" -> [r |-> Obj("ed25519.PrivateKey", der), err |-> NoErr]
      [] OTHER -> [r |-> NoObj, err |-> "x509: failed to parse PKCS8 private key"]

\* Mutant: a PKCS#8 key is wrapped in a variant of its own.
Dispatch_WrapsPKCS8(der) ==
    CASE der.type = "CERTIFICATE" ->
            [parsed |-> TRUE] @@ ParseCertificate(der.der)
      [] der.type = "RSA PRIVATE KEY" ->
            [parsed |-> TRUE] @@ ParsePKCS1PrivateKey(der.der)
      [] der.type = "EC PRIVATE KEY" ->
            [parsed |-> TRUE] @@ ParseECPrivateKey(der.der)
      [] der.type = "PRIVATE KEY" ->
            LET k == ParsePKCS8PrivateKey(der.der)
            IN  [parsed |-> TRUE,
                 r |-> IF k.err = NoErr THEN Obj("GenericPrivateKey", der.der) ELSE NoObj,
                 err |-> k.err]
      [] OTHER -> [parsed |-> FALSE, r |-> NoObj, err |-> NoErr]

\* The switch on der.Type of ParsePEMs: the parser of the block's type, or
\* nothing for a type that has no case.
Dispatch(der) ==
    CASE der.type = "CERTIFICATE" ->
            [parsed |-> TRUE] @@ ParseCertificate(der.der)
      [] der.type = "RSA PRIVATE KEY" ->
            [parsed |-> TRUE] @@ ParsePKCS1PrivateKey(der.der)
      [] der.type = "EC PRIVATE KEY" ->
            [parsed |-> TRUE] @@ ParseECPrivateKey(der.der)
      [] der.type = "PRIVATE KEY" ->
            [parsed |-> TRUE] @@ ParsePKCS8PrivateKey(der.der)
      [] OTHER -> [parsed |-> FALSE, r |-> NoObj, err |-> NoErr]

\* What ParsePEMs returns: the objs of the ParsedPEMs, the error, and the
\* number of calls of pem.Decode it made.
Return(objs, err, ndecode) == [objs |-> objs, err |-> err, ndecode |-> ndecode]

\* Mutant: the new object goes in front.
Accumulate_Prepend(objs, r) == <<r>> \o objs

\* objs = append(objs, r)
Accumulate(objs, r) == Append(objs, r)

\* Mutant: what was parsed before the failure is returned with the error.
Abort_Partial(objs, e, ndecode) == Return(objs, e, ndecode)

\* return ParsedPEMs{}, err
Abort(objs, e, ndecode) == Return(<<>>, e, ndecode)

\* Mutant: an empty result is returned without an error.
Finish_AllowsEmpty(objs, ndecode) == Return(objs, NoErr, ndecode)

\* After the loop: the objects when there are any, else the error.
Finish(objs, ndecode) ==
    IF Len(objs) > 0
    THEN Return(objs, NoErr, ndecode)
    ELSE Return(<<>>, ErrPemIsUnsupportedType, ndecode)

RECURSIVE ParseLoop(_, _, _)
ParseLoop(rest, objs, ndecode) ==
    LET d == Decode(rest)
    IN  IF d.der = NoBlock
        THEN Finish(objs, ndecode + 1)
        ELSE LET p == Dispatch(d.der)
             IN  IF ~p.parsed THEN ParseLoop(d.rest, objs, ndecode + 1)
                 ELSE IF p.err # NoErr THEN Abort(objs, p.err, ndecode + 1)
                 ELSE ParseLoop(d.rest, Accumulate(objs, p.r), ndecode + 1)

ParsePEMs(pemInt) ==
    LET ib == intoBytes(pemInt)
    IN  IF ib.err # NoErr
        THEN Return(<<>>, ib.err, 0)
        ELSE ParseLoop(ib.b, <<>>, 0)

(***************************************************************************)
(* State                                                                   *)
(***************************************************************************)
VARIABLES
    pemInt,   \* the argument of ParsePEMs
    pc,       \* "start" before ParsePEMs is called, "returned" after
    objs,     \* the objs of the ParsedPEMs the caller holds
    err,      \* the error ParsePEMs returned
    taken,    \* the objects the consumption methods have returned so far
    call      \* the last call: its method, the objs it found, its outcome

vars == <<pemInt, pc, objs, err, taken, call>>

ConsumeOps == {"Interface", "MustCertificate", "MustRSAPrivateKey", "MustECPrivateKey"}

TypedOps == ConsumeOps \ {"Interface"}

Init ==
    /\ pemInt \in Inputs
    /\ pc = "start"
    /\ objs = <<>>
    /\ err = NoErr
    /\ taken = <<>>
    /\ call = [op |-> "none"]

CallParsePEMs ==
    /\ pc = "start"
    /\ LET res == ParsePEMs(pemInt)
       IN  /\ objs' = res.objs
           /\ err' = res.err
           /\ call' = [op |-> "ParsePEMs", ndecode |-> res.ndecode]
    /\ pc' = "returned"
    /\ UNCHANGED <<pemInt, taken>>

\* The outcome of a method call on a ParsedPEMs holding `before`.
Returned(op, before, ret) ==
    [op |-> op, before |-> before, panicked |-> FALSE, ret |-> <<ret>>]

Panicked(op, before) ==
    [op |-> op, before |-> before, panicked |-> TRUE, ret |-> <<>>]

Length ==
    /\ pc = "returned"
    /\ call' = [op |-> "Length", before |-> objs, panicked |-> FALSE, n |-> Len(objs)]
    /\ UNCHANGED <<pemInt, pc, objs, err, taken>>

\* Mutant: the last element is taken instead of the first.
Interface_PopsBack ==
    /\ pc = "returned"
    /\ IF Len(objs) = 0
       THEN /\ call' = Panicked("Interface", objs)
            /\ UNCHANGED <<objs, taken>>
       ELSE /\ call' = Returned("Interface", objs, objs[Len(objs)])
            /\ objs' = SubSeq(objs, 1, Len(objs) - 1)
            /\ taken' = Append(taken, objs[Len(objs)])
    /\ UNCHANGED <<pemInt, pc, err>>

\* p.objs[0] panics (index out of range) on an empty slice.
Interface ==
    /\ pc = "returned"
    /\ IF Len(objs) = 0
       THEN /\ call' = Panicked("Interface", objs)
            /\ UNCHANGED <<objs, taken>>
       ELSE /\ call' = Returned("Interface", objs, objs[1])
            /\ objs' = Tail(objs)
            /\ taken' = Append(taken, objs[1])
    /\ UNCHANGED <<pemInt, pc, err>>

\* Mutant: the assertion accepts every type.
TypeAssert_Coerces(o, T) == TRUE

\* The type assertion p.objs[0].(T).
TypeAssert(o, T) == o.gotype = T

\* Mutant: an empty ParsedPEMs yields nil instead of a panic.
Must_NilOnEmpty(op, T, p) ==
    IF Len(p) = 0
    THEN [objs |-> p, call |-> Returned(op, p, NoObj)]
    ELSE IF ~TypeAssert(p[1], T)
    THEN [objs |-> p, call |-> Panicked(op, p)]
    ELSE [objs |-> Tail(p), call |-> Returned(op, p, p[1])]

\* Mutant: the front element is dropped before the type is checked.
Must_ConsumesOnMismatch(op, T, p) ==
    IF Len(p) = 0
    THEN [objs |-> p, call |-> Panicked(op, p)]
    ELSE IF ~TypeAssert(p[1], T)
    THEN [objs |-> Tail(p), call |-> Panicked(op, p)]
    ELSE [objs |-> Tail(p), call |-> Returned(op, p, p[1])]

\* The body the three typed accessors share, on a ParsedPEMs holding p:
\* index the front element (a panic on an empty slice), assert its type,
\* panic on a mismatch, and only then drop the front element and return it.
Must(op, T, p) ==
    IF Len(p) = 0
    THEN [objs |-> p, call |-> Panicked(op, p)]
    ELSE IF ~TypeAssert(p[1], T)
    THEN [objs |-> p, call |-> Panicked(op, p)]
    ELSE [objs |-> Tail(p), call |-> Returned(op, p, p[1])]

MustCertificate ==
    /\ pc = "returned"
    /\ LET m == Must("MustCertificate", "*x509.Certificate", objs)
       IN  /\ objs' = m.objs
           /\ call' = m.call
           /\ taken' = taken \o m.call.ret
    /\ UNCHANGED <<pemInt, pc, err>>

MustRSAPrivateKey ==
    /\ pc = "returned"
    /\ LET m == Must("MustRSAPrivateKey", "*rsa.PrivateKey", objs)
       IN  /\ objs' = m.objs
           /\ call' = m.call
           /\ taken' = taken \o m.call.ret
    /\ UNCHANGED <<pemInt, pc, err>>

MustECPrivateKey ==
    /\ pc = "returned"
    /\ LET m == Must("MustECPrivateKey", "*ecdsa.PrivateKey", objs)
       IN  /\ objs' = m.objs
           /\ call' = m.call
           /\ taken' = taken \o m.call.ret
    /\ UNCHANGED <<pemInt, pc, err>>

Next ==
    \/ CallParsePEMs
    \/ Length
    \/ Interface
    \/ MustCertificate
    \/ MustRSAPrivateKey
    \/ MustECPrivateKey

Spec == Init /\ [][Next]_vars

(***************************************************************************)
(* What the properties speak of                                            *)
(***************************************************************************)
RECURSIVE Flatten(_)
Flatten(ss) == IF ss = <<>> THEN <<>> ELSE Head(ss) \o Flatten(Tail(ss))

\* The input is one ParsePEMs normalises: a []byte, a string, or a reader
\* that ends with io.EOF.
Normalizable(in) ==
    \/ in.kind \in {"[]byte", "string"}
    \/ in.kind = "reader" /\ in.readErr = "EOF"

\* The content an input carries.
ContentOf(in) ==
    CASE in.kind = "[]byte" -> in.b
      [] in.kind = "string" -> in.s
      [] in.kind = "reader" -> Flatten(in.chunks)
      [] OTHER -> <<>>

IsBlock(tok) == tok.kind = "block"

IsRecognized(tok) == tok.kind = "block" /\ tok.type \in RecognizedTypes

IsMalformed(tok) == IsRecognized(tok) /\ tok.der = "malformed"

\* The PEM blocks of the input, in textual order.
BlocksIn(in) == SelectSeq(ContentOf(in), IsBlock)

\* Its blocks of a recognized type, in textual order.
RecognizedIn(in) == SelectSeq(ContentOf(in), IsRecognized)

AfterParse == pc = "returned" /\ call.op = "ParsePEMs"

\* The type each typed accessor asserts.
AccessorType(op) ==
    CASE op = "MustCertificate"   -> "*x509.Certificate"
      [] op = "MustRSAPrivateKey" -> "*rsa.PrivateKey"
      [] op = "MustECPrivateKey"  -> "*ecdsa.PrivateKey"

PKCS8Bodies == {"pkcs8-rsa", "pkcs8-ec", "pkcs8-ed25519"}

(***************************************************************************)
(* C1                                                                      *)
(***************************************************************************)
\* C1: when every block of a recognized type parses and there is at least
\* one, ParsePEMs succeeds and returns exactly one object per recognized
\* block, in the order of those blocks in the input; other blocks and text
\* add nothing and cause no failure.
C1_OrderPreserved ==
    (/\ AfterParse
     /\ Normalizable(pemInt)
     /\ RecognizedIn(pemInt) # <<>>
     /\ \A i \in 1..Len(RecognizedIn(pemInt)) : ~IsMalformed(RecognizedIn(pemInt)[i]))
    => /\ err = NoErr
       /\ Len(objs) = Len(RecognizedIn(pemInt))
       /\ \A i \in 1..Len(objs) : objs[i].der = RecognizedIn(pemInt)[i].der

\* A certificate, a certificate request and an RSA key, in that order, gave
\* the certificate and then the key.
C1_Witness ==
    /\ AfterParse
    /\ ContentOf(pemInt) = <<Block("CERTIFICATE", "x509"),
                             Block("CERTIFICATE REQUEST", "pkcs10"),
                             Block("RSA PRIVATE KEY", "pkcs1")>>
    /\ err = NoErr
    /\ objs = <<Obj("*x509.Certificate", "x509"), Obj("*rsa.PrivateKey", "pkcs1")>>

(***************************************************************************)
(* C2                                                                      *)
(***************************************************************************)
\* C2: ParsePEMs never returns an empty set without an error: with no block
\* of a recognized type in a normalisable input it fails with
\* ErrPemIsUnsupportedType, and a nil error comes with at least one object.
C2_NeverEmpty ==
    AfterParse
    => /\ err = NoErr => Len(objs) >= 1
       /\ (Normalizable(pemInt) /\ RecognizedIn(pemInt) = <<>>)
            => (err = ErrPemIsUnsupportedType /\ objs = <<>>)

\* An input holding a certificate request and nothing recognized failed with
\* ErrPemIsUnsupportedType.
C2_Witness ==
    /\ AfterParse
    /\ Normalizable(pemInt)
    /\ BlocksIn(pemInt) # <<>>
    /\ RecognizedIn(pemInt) = <<>>
    /\ err = ErrPemIsUnsupportedType
    /\ objs = <<>>

(***************************************************************************)
(* C3                                                                      *)
(***************************************************************************)
\* The place, among the blocks of the input, of the first block of a
\* recognized type whose body its parser rejects (0: there is none).
FirstMalformed(in) ==
    LET bs == BlocksIn(in)
        bad == {i \in 1..Len(bs) : IsMalformed(bs[i])}
    IN  IF bad = {} THEN 0 ELSE CHOOSE i \in bad : \A j \in bad : i <= j

\* C3: when a block of a recognized type fails in its parser, ParsePEMs
\* returns that parser's error and no object, whatever was parsed before, and
\* decodes no block after the failing one.
C3_AbortOnMalformed ==
    (AfterParse /\ Normalizable(pemInt) /\ FirstMalformed(pemInt) > 0)
    => /\ err = Dispatch(BlocksIn(pemInt)[FirstMalformed(pemInt)]).err
       /\ err # NoErr
       /\ objs = <<>>
       /\ call.ndecode = FirstMalformed(pemInt)

\* A good certificate, then a malformed RSA key, then a good EC key: the
\* PKCS#1 error, nothing returned, the third block never decoded.
C3_Witness ==
    /\ AfterParse
    /\ ContentOf(pemInt) = <<Block("CERTIFICATE", "x509"),
                             Block("RSA PRIVATE KEY", "malformed"),
                             Block("EC PRIVATE KEY", "sec1")>>
    /\ err = "x509: failed to parse PKCS1 private key"
    /\ objs = <<>>
    /\ call.ndecode = 2

(***************************************************************************)
(* C4                                                                      *)
(***************************************************************************)
\* C4: a consumption method called on an empty ParsedPEMs panics and returns
\* nothing.
C4_UnderrunPanics ==
    (pc = "returned" /\ call.op \in ConsumeOps /\ call.before = <<>>)
    => (call.panicked /\ call.ret = <<>> /\ objs = <<>>)

\* A set of two elements was consumed by two successful calls, and the third
\* call panicked.
C4_Witness ==
    /\ pc = "returned"
    /\ err = NoErr
    /\ Len(taken) = 2
    /\ call.op \in TypedOps
    /\ call.before = <<>>
    /\ call.panicked

(***************************************************************************)
(* C5                                                                      *)
(***************************************************************************)
\* C5: a typed accessor called when the front element is of another type
\* panics and returns nothing.
C5_MismatchPanics ==
    (/\ pc = "returned"
     /\ call.op \in TypedOps
     /\ call.before # <<>>
     /\ call.before[1].gotype # AccessorType(call.op))
    => (call.panicked /\ call.ret = <<>>)

\* MustECPrivateKey panicked on a certificate.
C5_Witness ==
    /\ pc = "returned"
    /\ call.op = "MustECPrivateKey"
    /\ call.before # <<>>
    /\ call.before[1].gotype = "*x509.Certificate"
    /\ call.panicked

(***************************************************************************)
(* C6                                                                      *)
(***************************************************************************)
\* The last call was a typed accessor that failed on a front element of
\* another type.
MismatchFailure ==
    /\ pc = "returned"
    /\ call.op \in TypedOps
    /\ call.before # <<>>
    /\ call.panicked

\* C6 as stated: a typed accessor that fails on a type mismatch still
\* consumes the front element.
C6_ConsumesOnMismatch ==
    MismatchFailure
    => (Len(objs) = Len(call.before) - 1 /\ objs = Tail(call.before))

\* C6, amended: a typed accessor that fails on a type mismatch consumes
\* nothing: the set is as it was, the mismatched element still at its front.
C6_KeepsOnMismatch ==
    MismatchFailure
    => (objs = call.before /\ Head(objs).gotype # AccessorType(call.op))

\* MustRSAPrivateKey failed on an EC key that is followed by another element.
C6_Witness ==
    /\ MismatchFailure
    /\ call.op = "MustRSAPrivateKey"
    /\ call.before[1].gotype = "*ecdsa.PrivateKey"
    /\ Len(call.before) >= 2

(***************************************************************************)
(* C7                                                                      *)
(***************************************************************************)
\* C7: the same content given as a []byte, as a string and as a reader that
\* ends with io.EOF gives the same outcome: the same error, or the same
\* objects in the same order.
C7_ShapeEquivalence ==
    (AfterParse /\ Normalizable(pemInt))
    => \A in \in {BytesOf(ContentOf(pemInt)),
                  StringOf(ContentOf(pemInt)),
                  ReaderOf(ContentOf(pemInt), "EOF")} :
          /\ ParsePEMs(in).err = err
          /\ ParsePEMs(in).objs = objs

\* A reader over three blocks gave two objects.
C7_Witness ==
    /\ AfterParse
    /\ pemInt.kind = "reader"
    /\ Len(pemInt.chunks) = 3
    /\ err = NoErr
    /\ Len(objs) = 2

(***************************************************************************)
(* C8                                                                      *)
(***************************************************************************)
\* C8: an input that is no []byte, string or io.Reader fails with
\* ErrPemUnderlyingFormatError, a reader whose draining fails fails with the
\* read error; either way nothing is returned and pem.Decode is never called.
C8_NormalizationFailure ==
    AfterParse
    => /\ pemInt.kind \notin {"[]byte", "string", "reader"}
            => (err = ErrPemUnderlyingFormatError /\ objs = <<>> /\ call.ndecode = 0)
       /\ (pemInt.kind = "reader" /\ pemInt.readErr # "EOF")
            => (err = pemInt.readErr /\ objs = <<>> /\ call.ndecode = 0)

\* A reader that yields a good certificate and then fails made ParsePEMs
\* fail with the read error.
C8_Witness ==
    /\ AfterParse
    /\ pemInt.kind = "reader"
    /\ pemInt.readErr = ErrRead
    /\ pemInt.chunks = <<<<Block("CERTIFICATE", "x509")>>>>
    /\ err = ErrRead
    /\ objs = <<>>
    /\ call.ndecode = 0

(***************************************************************************)
(* C9                                                                      *)
(***************************************************************************)
\* C9: the set only shrinks, from the front: Length changes nothing and
\* reports the number of elements, no call makes the set longer, a
\* successful consumption call returns the front element and leaves the
\* rest in order, and what has been returned followed by what remains is
\* what ParsePEMs returned, so n elements are drained by n successful calls.
C9_FifoShrink ==
    pc = "returned"
    => /\ call.op = "Length"
            => (objs = call.before /\ call.n = Len(call.before))
       /\ call.op \in ConsumeOps
            => /\ Len(objs) <= Len(call.before)
               /\ ~call.panicked
                    => /\ call.before # <<>>
                       /\ call.ret = <<Head(call.before)>>
                       /\ objs = Tail(call.before)
                       /\ Len(objs) = Len(call.before) - 1
       /\ taken \o objs = ParsePEMs(pemInt).objs
       /\ objs = <<>> => Len(taken) = Len(ParsePEMs(pemInt).objs)

\* Three different elements were taken by Interface in the order of the
\* input, and the set is empty.
C9_Witness ==
    /\ pc = "returned"
    /\ call.op = "Interface"
    /\ ~call.panicked
    /\ objs = <<>>
    /\ taken = <<Obj("*x509.Certificate", "x509"),
                 Obj("*rsa.PrivateKey", "pkcs1"),
                 Obj("*ecdsa.PrivateKey", "sec1")>>

(***************************************************************************)
(* C10                                                                     *)
(***************************************************************************)
\* The last call was a consumption call that found, at the front, the key of
\* a PRIVATE KEY (PKCS#8) block.
OnPKCS8Key ==
    /\ pc = "returned"
    /\ call.op \in ConsumeOps
    /\ call.before # <<>>
    /\ call.before[1].der \in PKCS8Bodies

\* C10 as stated: the key of a PRIVATE KEY block is of a variant of its own,
\* so the typed accessors for RSA and EC keys fail on it whatever algorithm
\* it carries.
C10_GenericVariant ==
    (OnPKCS8Key /\ call.op \in {"MustRSAPrivateKey", "MustECPrivateKey"})
    => (call.panicked /\ call.before[1].gotype \notin {"*rsa.PrivateKey", "*ecdsa.PrivateKey"})

\* C10, amended: the key of a PRIVATE KEY block has the type of the
\* algorithm it carries: MustRSAPrivateKey returns it exactly when it is an
\* RSA key, MustECPrivateKey exactly when it is an EC key, MustCertificate
\* never, Interface always.
C10_TypeOfAlgorithm ==
    OnPKCS8Key
    => /\ call.op = "MustRSAPrivateKey" => (call.panicked <=> call.before[1].der # "pkcs8-rsa")
       /\ call.op = "MustECPrivateKey" => (call.panicked <=> call.before[1].der # "pkcs8-ec")
       /\ call.op = "MustCertificate" => call.panicked
       /\ call.op = "Interface" => ~call.panicked
       /\ ~call.panicked => call.ret = <<call.before[1]>>

\* MustRSAPrivateKey returned the RSA key of a PRIVATE KEY block.
C10_Witness ==
    /\ OnPKCS8Key
    /\ call.op = "MustRSAPrivateKey"
    /\ call.before[1].der = "pkcs8-rsa"
    /\ ~call.panicked
    /\ call.ret = <<Obj("*rsa.PrivateKey", "pkcs8-rsa")>>

====
